---- MODULE Spec2Model ----
(***************************************************************************)
(* Stamp-tour server (src/src/main.rs): the request handlers handle_check, *)
(* handle_stamp, handle_login and handle_admin running on a pool of worker *)
(* threads over three Mutex-guarded stores (UserList, UserStampList,       *)
(* StampHistory), the immutable StampIdList and the two JSON files under   *)
(* resources/database.                                                     *)
(*                                                                         *)
(* One action is one atomic step of a handler: the code between two lock   *)
(* acquisitions, with the thread-local code before the first shared access *)
(* folded into the handler's first step.  Every `x.lock().unwrap()...`     *)
(* statement of the source takes and releases its lock inside one          *)
(* statement, so each is one step.                                         *)
(*                                                                         *)
(* Strings that the code parses or compares character-wise (the query      *)
(* string, checkpoint ids) are sequences of one-character strings.         *)
(***************************************************************************)
EXTENDS Integers, Sequences, FiniteSets, TLC

(* ---------------------------------------------------------------- bounds *)

\* worker threads of the HttpServer handling requests concurrently
NumWorkers == 2
\* registrations per run (Uuid::new_v4 values handed out as user ids)
MaxUsers == 2
\* check requests per run that reach the insert into UserStampList
MaxChecks == 2
\* admin commands per run that reach save_file
MaxSaves == 1
\* requests per run that get past their handler's validation
MaxWork == 4

Workers == 1..NumWorkers
Uuids == 1..MaxUsers
\* req.cookie("user_id") is None
NoCookie == 0
\* the cookie values a client may present: any id string, registered or not
Cookies == Uuids \cup {NoCookie}
\* req.peer_addr().ip() of a caller on the machine and of one elsewhere
LocalPeer == "127.0.0.1"
RemotePeer == "10.0.0.7"
Peers == {LocalPeer, RemotePeer}
\* display names sent to /login
Names == {"Ada", "Bob"}
\* the values Uuid::new_v4() yields for the redirect's ?random= parameter
RandomTokens == {"r1", "r2"}

(* ------------------------------------------------------ checkpoint ids *)

StampA == <<"A">>
StampB == <<"B">>
EmptyId == <<>>
\* marks "no checkpoint": not a string the parser can produce
NoStamp == <<"none">>
AllStampIds == {StampA, StampB, EmptyId}

\* stampList.json is read once at startup (stamp_db); two catalogs are
\* considered: ids A and B, and ids A and "" (an entry whose stampId is empty)
CatalogChoices == {{StampA, StampB}, {StampA, EmptyId}}

\* query strings sent to /check
Queries ==
    { <<"s", "=", "A">>,
      <<"s", "=", "B">>,
      <<"x">> }

\* position of the first "s=" in q at or after index i, 0 when there is none
FirstSep(q, i) ==
    LET hits == {j \in i..(Len(q) - 1) : q[j] = "s" /\ q[j + 1] = "="}
    IN  IF hits = {} THEN 0
        ELSE CHOOSE j \in hits : \A k \in hits : j <= k

\* req.query_string().split("s=").nth(1).unwrap_or_default()
ParseStampId(q) ==
    LET i == FirstSep(q, 1)
    IN  IF i = 0 THEN EmptyId
        ELSE LET rest == SubSeq(q, i + 2, Len(q))
                 j == FirstSep(rest, 1)
             IN  IF j = 0 THEN rest ELSE SubSeq(rest, 1, j - 1)

(* ------------------------------------------------------------ responses *)

\* Redirect::to(format!("/stamp/?random={}", Uuid::new_v4())).temporary()
\* a check answered by a refusal instead of the redirect
RedirectRefused(n) == [status |-> "Unauthorized"]

Redirect(n) ==
    [status |-> "TemporaryRedirect", location |-> <<"/stamp/?random=", n>>]
\* handle_401()
Unauthorized == [status |-> "Unauthorized"]
\* handle_404()
NotFound == [status |-> "NotFound"]
\* HttpResponse::Ok().body(format_file(stamp_id))
OkStamp(id) == [status |-> "Ok", stamp |-> id]
\* HttpResponse::Ok().json(x)
OkJson(x) == [status |-> "Ok", json |-> x]
\* the handler panicked (an unwrap failed): no response is produced
Panicked == [status |-> "Panic"]
\* no request handled yet
NoResponse == [status |-> "None"]

(* -------------------------------------------------------------- storage *)

\* a file of resources/database: <<>> when absent, <<content>> otherwise
NoFile == <<>>
\* serde_json::to_writer of StampHistory / UserList: one JSON object whose
\* single member is named after the struct's field
HistoryToJson(h) == [stamp_history |-> h]

\* a serializer that leaves the users out
UsersToJsonEmpty(u) == [users |-> <<>>]

UsersToJson(u) == [users |-> u]

\* serde_json::from_str::<StampHistory> / ::<UserList> of a file's content
HistoryFromJson(j) == j.stamp_history
UsersFromJson(j) == j.users

(* ---------------------------------------------------------------- state *)

VARIABLES
    catalog,     \* StampIdList.stamp_id_list keys (immutable after startup)
    users,       \* UserList.users: user_id -> user_name
    pending,     \* UserStampList.user_stamp_list: user_id -> stamp_id
    history,     \* StampHistory.stamp_history: stamp_id -> Vec<StampUserInfo>
    poisoned,    \* the mutexes a panic has poisoned
    held,        \* per mutex: the worker holding its guard, 0 when unlocked
    disk,        \* resources/database/{stamp_status,user_status}.json
    snap,        \* the history as it stood when this run last wrote its file
    issued,      \* number of ids Uuid::new_v4 has handed out to registrations
    clock,       \* chrono::Utc::now(), advancing with every reading
    pc,          \* per worker: the step of the handler it is to run next
    req,         \* per worker: the request in hand
    loc,         \* per worker: the handler's local variables
    obs,         \* per worker: what was so when the request in hand began
    last,        \* the request the step just taken completed, with its response
    nChecks,     \* per user and checkpoint: inserts made by handle_check
    nSaves,      \* admin commands that reached save_file
    nStamps,     \* stamp requests that found an entry in their clone
    nLogins,     \* login requests handled since startup
    quota        \* the requests the run admits: in all, and admin saves

stores == <<users, pending, history>>
shared ==
    <<quota, catalog, users, pending, history, poisoned, held, disk, snap,
      issued, clock>>
vars == <<catalog, users, pending, history, poisoned, held, disk, snap, issued,
          clock, pc, req, loc, obs, last, nChecks, nSaves, nStamps, nLogins,
          quota>>
counters == <<nChecks, nSaves, nStamps, nLogins>>

\* the empty map
EmptyMap == <<>>

\* a remove that leaves the entry in the map
MapRemoveNothing(m, k) == m

\* an insert that drops every other key
MapInsertAlone(m, k, v) == [x \in {k} |-> v]

\* an insert that keeps the value the key already has
MapInsertIfAbsent(m, k, v) ==
    [x \in DOMAIN m \cup {k} |-> IF x \in DOMAIN m THEN m[x] ELSE v]

\* a presence test that answers the opposite
ContainsKeyNot(m, k) == k \notin DOMAIN m

\* a presence test that always finds the key
ContainsKeyAlways(m, k) == TRUE

\* a remove that empties the map
MapRemoveAll(m, k) == <<>>

\* HashMap::remove(k)
MapRemove(m, k) == [x \in DOMAIN m \ {k} |-> m[x]]
\* HashMap::insert(k, v) / BTreeMap::insert(k, v)
MapInsert(m, k, v) == [x \in DOMAIN m \cup {k} |-> IF x = k THEN v ELSE m[x]]
\* HashMap::contains_key(k) / BTreeMap::contains_key(k)
ContainsKey(m, k) == k \in DOMAIN m
\* Option<&String> of HashMap::get, and the Option<String> HashMap::remove
\* returns; NoStamp for None
MapGet(m, k) == IF k \in DOMAIN m THEN m[k] ELSE NoStamp

\* a history built without the sequence of checkpoint A
EmptyHistoryButA(cat) == [c \in cat \ {<<"A">>} |-> <<>>]

\* stamp_history(stamp_id_list): an empty Vec under every catalog id
EmptyHistory(cat) == [c \in cat |-> <<>>]

IdleLoc ==
    [user_id |-> NoCookie, stamp_id |-> NoStamp, list |-> EmptyMap,
     user_name |-> "", timestamp |-> 0]
NoRequest == [op |-> "none", cookie |-> NoCookie, arg |-> "", peer |-> LocalPeer]
\* alone: no other request has been in flight since this one began;
\* e0: the user's pending entry when it began; h0: the history when it began
\* (kept by handle_stamp only); removed: what its HashMap::remove returned
NoObs ==
    [alone |-> TRUE, e0 |-> NoStamp, h0 |-> <<>>, removed |-> NoStamp, seen |-> {}]
\* branch: the return statement taken
NoLast ==
    [req |-> NoRequest, resp |-> NoResponse, branch |-> "",
     alone |-> TRUE, e0 |-> NoStamp, removed |-> NoStamp]

\* the three Mutex values run() wraps the stores in
Mutexes == {"user_list", "user_stamp_list", "user_history"}
\* no worker
NoWorker == 0
AllUnlocked == [m \in Mutexes |-> NoWorker]

\* a guard that outlives its statement
UnlockNever(h, m) == h

\* the MutexGuard temporary dropped at the end of its statement
Unlock(h, m) == [h EXCEPT ![m] = NoWorker]

\* no file written by this run yet
NoSnap == <<"none">>

\* the files of resources/database, none written yet
NoFiles == [stamp_status |-> NoFile, user_status |-> NoFile]

\* a loader that never opens the file
StampHistoryDbFresh(d, cat) == EmptyHistory(cat)

\* stamp_history_db(stamp_id_list): the file if it opens, else one empty
\* sequence per catalog id
StampHistoryDb(d, cat) ==
    IF d.stamp_status = NoFile THEN EmptyHistory(cat)
    ELSE HistoryFromJson(d.stamp_status[1])

\* user_list_db(): the file if it opens, else no users
UserListDb(d) ==
    IF d.user_status = NoFile THEN EmptyMap
    ELSE UsersFromJson(d.user_status[1])

\* run(): the stores as built at startup over the files d, `n` ids having
\* been handed out before
Started(d, n) ==
    /\ catalog \in CatalogChoices
    /\ users = UserListDb(d)
    /\ pending = EmptyMap
    /\ history = StampHistoryDb(d, catalog)
    /\ poisoned = {}
    /\ held = AllUnlocked
    /\ disk = d
    /\ snap = NoSnap
    /\ issued = n
    /\ clock = 1
    /\ pc = [t \in Workers |-> "idle"]
    /\ req = [t \in Workers |-> NoRequest]
    /\ loc = [t \in Workers |-> IdleLoc]
    /\ obs = [t \in Workers |-> NoObs]
    /\ last = NoLast
    /\ nChecks = [u \in Uuids |-> [c \in AllStampIds |-> 0]]
    /\ nSaves = 0
    /\ nStamps = 0
    /\ nLogins = 0

\* the requests a run admits
Quota == [work |-> MaxWork, saves |-> MaxSaves]

\* run() with no file under resources/database
Init == Started(NoFiles, 0) /\ quota = Quota

(* -------------------------------------------------------------- helpers *)

RECURSIVE SetSum(_, _)
SetSum(S, f) ==
    IF S = {} THEN 0
    ELSE LET x == CHOOSE y \in S : TRUE IN f[x] + SetSum(S \ {x}, f)

\* inserts user u has made into UserStampList
ChecksOf(u) == SetSum(AllStampIds, nChecks[u])

\* inserts into UserStampList made so far, plus those about to be made
ChecksAdmitted ==
    SetSum(Uuids, [u \in Uuids |-> ChecksOf(u)])
    + Cardinality({t \in Workers : pc[t] = "check_insert"})

InFlight(t) == pc[t] # "idle"

\* the requests admitted so far: the run admits quota.work of them
WorkLeft == nLogins + ChecksAdmitted + nSaves + nStamps < quota.work

\* the server hands a request to a free worker; the workers share every
\* store (Data::clone), so which free worker takes it makes no difference:
\* the one with the lowest number does
Free(t) ==
    /\ last = NoLast
    /\ pc[t] = "idle"
    /\ \A w \in Workers : w < t => pc[w] # "idle"

\* worker t is at step `label` of its handler
At(t, label) == last = NoLast /\ pc[t] = label

\* no worker holds the guard of mutex m: lock() returns at once
Unlocked(m) == held[m] = NoWorker

\* the statement of worker t that locks m runs to its end: lock() returns,
\* at once or because t was given the mutex before, the operation is made
\* and the guard is dropped
Locked(t, m) ==
    /\ held[m] \in {NoWorker, t}
    /\ held' = Unlock(held, m)

\* an admin request in flight sees the stores stand at users u, history h
Moments(o, w, u, h) ==
    IF pc[w] # "idle" /\ req[w].op = "admin"
    THEN [o EXCEPT !.seen = @ \cup {<<u, h>>}]
    ELSE o

\* worker t takes request r: the requests in flight are no longer alone
ObsBegin(t, r, e, h) ==
    [u \in Workers |->
        IF u = t
        THEN [alone |-> \A w \in Workers \ {t} : pc[w] = "idle",
              e0 |-> e, h0 |-> h, removed |-> NoStamp,
              seen |-> IF r.op = "admin" THEN {<<users, history>>} ELSE {}]
        ELSE IF pc[u] # "idle" THEN [obs[u] EXCEPT !.alone = FALSE]
        ELSE obs[u]]

\* the handler returns from its first step, leaving users u and history h
ReturnAtOnceWith(t, r, e, response, why, u, h) ==
    /\ pc' = pc
    /\ loc' = loc
    /\ req' = req
    /\ obs' = [w \in Workers |->
                 IF pc[w] # "idle"
                 THEN Moments([obs[w] EXCEPT !.alone = FALSE], w, u, h)
                 ELSE obs[w]]
    /\ last' = [req |-> r, resp |-> response, branch |-> why,
                alone |-> \A w \in Workers \ {t} : pc[w] = "idle",
                e0 |-> e, removed |-> NoStamp]

\* the handler returns from its first step, the stores as they were
ReturnAtOnce(t, r, e, response, why) ==
    ReturnAtOnceWith(t, r, e, response, why, users, history)

\* the handler returns from a later step, leaving users u and history h
ReturnLaterWith(t, response, why, u, h) ==
    /\ pc' = [pc EXCEPT ![t] = "idle"]
    /\ loc' = [loc EXCEPT ![t] = IdleLoc]
    /\ req' = [req EXCEPT ![t] = NoRequest]
    /\ obs' = [w \in Workers |->
                 IF w = t THEN NoObs ELSE Moments(obs[w], w, u, h)]
    /\ last' = [req |-> req[t], resp |-> response, branch |-> why,
                alone |-> obs[t].alone, e0 |-> obs[t].e0,
                removed |-> obs[t].removed]

\* the handler returns from a later step, the stores as they were
ReturnLater(t, response, why) ==
    ReturnLaterWith(t, response, why, users, history)

\* the handler goes from its first step on to step `next`
Enter(t, r, e, h, next, l) ==
    /\ pc' = [pc EXCEPT ![t] = next]
    /\ loc' = [loc EXCEPT ![t] = l]
    /\ req' = [req EXCEPT ![t] = r]
    /\ obs' = ObsBegin(t, r, e, h)
    /\ last' = NoLast

\* the handler goes from a later step on to step `next`
Goto(t, next, l) ==
    /\ pc' = [pc EXCEPT ![t] = next]
    /\ loc' = [loc EXCEPT ![t] = l]
    /\ req' = req
    /\ last' = NoLast

(* --------------------------------------------------------- handle_check *)

CheckRequest(c, q) == [op |-> "check", cookie |-> c, arg |-> q, peer |-> LocalPeer]

\* a catalog test that also accepts the empty id
InCatalogOrEmpty(cat, stamp_id) == stamp_id \in cat \cup {<<>>}

\* a catalog test that accepts every id
InCatalogAlways(cat, stamp_id) == TRUE

\* stamp_id_list.stamp_id_list.contains_key(&stamp_id)
InCatalog(cat, stamp_id) == stamp_id \in cat

\* lines 277-310: the cookie, the UserList clone, the query and the catalog
CheckBegin(t, c, q, n) ==
    /\ Free(t)
    /\ c # NoCookie => Unlocked("user_list")
    /\ LET e == MapGet(pending, c)
           r == CheckRequest(c, q)
           stamp_id == ParseStampId(q)
       IN  IF c = NoCookie
           THEN ReturnAtOnce(t, r, e, Redirect(n), "no_cookie")
           ELSE IF "user_list" \in poisoned
           THEN ReturnAtOnce(t, r, e, Panicked, "panic")
           ELSE IF ~ContainsKey(users, c)
           THEN ReturnAtOnce(t, r, e, Redirect(n), "unknown_user")
           ELSE IF ~InCatalog(catalog, stamp_id)
           THEN ReturnAtOnce(t, r, e, Redirect(n), "unknown_stamp")
           ELSE /\ ChecksAdmitted < MaxChecks
                /\ WorkLeft
                /\ Enter(t, r, e, <<>>, "check_insert",
                         [IdleLoc EXCEPT !.user_id = c, !.stamp_id = stamp_id])
    /\ UNCHANGED <<shared, counters>>

\* lines 312-323: the insert under the UserStampList lock, then the redirect
CheckInsert(t, n) ==
    /\ At(t, "check_insert")
    /\ Locked(t, "user_stamp_list")
    /\ LET u == loc[t].user_id
           s == loc[t].stamp_id
       IN  IF "user_stamp_list" \in poisoned
           THEN /\ ReturnLater(t, Panicked, "panic")
                /\ UNCHANGED <<pending, nChecks>>
           ELSE /\ pending' = MapInsert(pending, u, s)
                /\ nChecks' = [nChecks EXCEPT ![u][s] = @ + 1]
                /\ ReturnLater(t, Redirect(n), "inserted")
    /\ UNCHANGED <<quota, catalog, users, history, poisoned, disk, snap, issued,
                   clock, nSaves, nStamps, nLogins>>

(* --------------------------------------------------------- handle_stamp *)

StampRequest(c) == [op |-> "stamp", cookie |-> c, arg |-> "", peer |-> LocalPeer]

\* StampUserInfo { user_id, user_name, timestamp }
StampUserInfo(u, name, ts) == [user_id |-> u, user_name |-> name, timestamp |-> ts]

\* an append that puts the record in front
ExtendFront(h, s, info) == [h EXCEPT ![s] = <<info>> \o @]

\* an append that writes the record twice
ExtendTwice(h, s, info) == [h EXCEPT ![s] = Append(Append(@, info), info)]

\* stamp_history.get_mut(stamp_id).unwrap().extend(vec![info])
Extend(h, s, info) == [h EXCEPT ![s] = Append(@, info)]

\* a response that takes checkpoint A for the empty id
StampResponseNoA(s) == IF s # <<"A">> THEN OkStamp(s) ELSE NotFound

\* lines 424-436: 200 with the formatted page unless the stamp id is empty
StampResponse(s) == IF s # EmptyId THEN OkStamp(s) ELSE NotFound

\* lines 363-386: the cookie, the clone of UserStampList, the 401 when the
\* clone holds no entry for the user
StampBegin(t, c) ==
    /\ Free(t)
    /\ c # NoCookie => Unlocked("user_stamp_list")
    /\ LET e == MapGet(pending, c)
           r == StampRequest(c)
       IN  IF c = NoCookie
           THEN /\ ReturnAtOnce(t, r, e, Unauthorized, "no_cookie")
                /\ UNCHANGED nStamps
           ELSE IF "user_stamp_list" \in poisoned
           THEN /\ ReturnAtOnce(t, r, e, Panicked, "panic")
                /\ UNCHANGED nStamps
           ELSE IF ~ContainsKey(pending, c)
           THEN /\ ReturnAtOnce(t, r, e, Unauthorized, "no_entry")
                /\ UNCHANGED nStamps
           ELSE /\ WorkLeft
                /\ nStamps' = nStamps + 1
                /\ Enter(t, r, e, history, "stamp_remove",
                         [IdleLoc EXCEPT !.user_id = c, !.list = pending])
    /\ UNCHANGED <<shared, nChecks, nSaves, nLogins>>

\* lines 388-394: the remove under a second acquisition of the lock, then
\* the stamp id read from the clone
StampRemove(t) ==
    /\ At(t, "stamp_remove")
    /\ Locked(t, "user_stamp_list")
    /\ LET u == loc[t].user_id
       IN  IF "user_stamp_list" \in poisoned
           THEN /\ ReturnLater(t, Panicked, "panic")
                /\ UNCHANGED pending
           ELSE IF MapGet(loc[t].list, u) = NoStamp
           THEN /\ pending' = MapRemove(pending, u)
                /\ ReturnLater(t, Panicked, "panic")
           ELSE /\ pending' = MapRemove(pending, u)
                /\ Goto(t, "stamp_user",
                        [loc[t] EXCEPT !.stamp_id = MapGet(loc[t].list, u),
                                       !.list = EmptyMap])
                /\ obs' = [obs EXCEPT ![t].removed = MapGet(pending, u)]
    /\ UNCHANGED <<quota, catalog, users, history, poisoned, disk, snap, issued,
                   clock, counters>>

\* lines 395-402: the user's name under the UserList lock, then the time
StampUser(t) ==
    /\ At(t, "stamp_user")
    /\ Locked(t, "user_list")
    /\ LET u == loc[t].user_id
       IN  IF "user_list" \in poisoned
           THEN /\ ReturnLater(t, Panicked, "panic")
                /\ UNCHANGED <<poisoned, clock>>
           ELSE IF ~ContainsKey(users, u)
           THEN /\ ReturnLater(t, Panicked, "panic")
                /\ poisoned' = poisoned \cup {"user_list"}
                /\ UNCHANGED clock
           ELSE /\ Goto(t, "stamp_append",
                        [loc[t] EXCEPT !.user_name = users[u],
                                       !.timestamp = clock])
                /\ obs' = obs
                /\ clock' = clock + 1
                /\ UNCHANGED poisoned
    /\ UNCHANGED <<quota, catalog, users, pending, history, disk, snap, issued,
                   counters>>

\* lines 403-436: the record appended under the StampHistory lock, then the
\* response
StampAppend(t) ==
    /\ At(t, "stamp_append")
    /\ Locked(t, "user_history")
    /\ LET u == loc[t].user_id
           s == loc[t].stamp_id
       IN  IF "user_history" \in poisoned
           THEN /\ ReturnLater(t, Panicked, "panic")
                /\ UNCHANGED <<history, poisoned>>
           ELSE IF ~ContainsKey(history, s)
           THEN /\ ReturnLater(t, Panicked, "panic")
                /\ poisoned' = poisoned \cup {"user_history"}
                /\ UNCHANGED history
           ELSE /\ history' =
                       Extend(history, s,
                              StampUserInfo(u, loc[t].user_name, loc[t].timestamp))
                /\ ReturnLaterWith(t, StampResponse(s), "appended", users,
                                   Extend(history, s,
                                          StampUserInfo(u, loc[t].user_name,
                                                        loc[t].timestamp)))
                /\ UNCHANGED poisoned
    /\ UNCHANGED <<quota, catalog, users, pending, disk, snap, issued, clock,
                   counters>>

(* --------------------------------------------------------- handle_login *)

LoginRequest(name) ==
    [op |-> "login", cookie |-> NoCookie, arg |-> name, peer |-> LocalPeer]

\* an id generator that hands out the previous id again
NewUserIdFixed == IF issued = 0 THEN 1 ELSE issued

\* Uuid::new_v4() for a user id: a value not handed out before
NewUserId == issued + 1

\* user_registration(name): User { user_name, user_id: Uuid::new_v4() }
UserRegistration(name) == [user_name |-> name, user_id |-> NewUserId]

\* lines 527-546: the new user inserted under the UserList lock
Login(t, name) ==
    /\ Free(t)
    /\ Unlocked("user_list")
    /\ issued < MaxUsers
    /\ WorkLeft
    /\ LET user == UserRegistration(name)
       IN  /\ issued' = issued + 1
           /\ nLogins' = nLogins + 1
           /\ IF "user_list" \in poisoned
              THEN /\ ReturnAtOnce(t, LoginRequest(name), NoStamp, Panicked, "panic")
                   /\ UNCHANGED users
              ELSE /\ users' = MapInsert(users, user.user_id, user.user_name)
                   /\ ReturnAtOnceWith(t, LoginRequest(name), NoStamp, OkJson(user),
                                       "registered",
                                       MapInsert(users, user.user_id, user.user_name),
                                       history)
    /\ UNCHANGED <<quota, catalog, pending, history, poisoned, held, disk, snap, clock,
                   nChecks, nSaves, nStamps>>

(* --------------------------------------------------------- handle_admin *)

Commands == {"stamp status", "save all", "help"}

AdminRequest(cmd, ip) ==
    [op |-> "admin", cookie |-> NoCookie, arg |-> cmd, peer |-> ip]

\* a peer test that takes every address for local
IsLoopbackAlways(ip) == TRUE

\* ip.is_loopback(): 127.0.0.0/8 and ::1
IsLoopback(ip) == ip \in {"127.0.0.1", "::1"}

\* a command test that takes every string for a snapshot command
RecognizedAlways(cmd) == TRUE

\* lines 463 and 470: the two command strings handle_admin acts on
Recognized(cmd) == cmd \in {"stamp status", "save all"}

\* Command { command: "", output }
CmdOutput(out) == [command |-> "", output |-> out]

\* format!("{:?}", stamp_history)
HistoryDebug(h) == <<"StampHistory", h>>

\* a save that overwrites every file of the directory
SaveFileAll(d, file_name, json) == [f \in DOMAIN d |-> <<json>>]

\* save_file(file_name, data): File::create, then serde_json::to_writer
SaveFile(d, file_name, json) == [d EXCEPT ![file_name] = <<json>>]

\* lines 445-468 / 471: the peer address, the command, and the first
\* save_file, made under the StampHistory lock
AdminBegin(t, cmd, ip) ==
    /\ Free(t)
    /\ IsLoopback(ip) /\ Recognized(cmd) => Unlocked("user_history")
    /\ LET r == AdminRequest(cmd, ip)
       IN  IF ~IsLoopback(ip)
           THEN /\ ReturnAtOnce(t, r, NoStamp, Unauthorized, "not_loopback")
                /\ UNCHANGED <<disk, snap, nSaves>>
           ELSE IF ~Recognized(cmd)
           THEN /\ ReturnAtOnce(t, r, NoStamp,
                                OkJson(CmdOutput("Command not found")), "not_found")
                /\ UNCHANGED <<disk, snap, nSaves>>
           ELSE IF "user_history" \in poisoned
           THEN /\ ReturnAtOnce(t, r, NoStamp, Panicked, "panic")
                /\ UNCHANGED <<disk, snap, nSaves>>
           ELSE /\ nSaves < quota.saves
                /\ WorkLeft
                /\ nSaves' = nSaves + 1
                /\ disk' = SaveFile(disk, "stamp_status", HistoryToJson(history))
                /\ snap' = history
                /\ Enter(t, r, NoStamp, history,
                         IF cmd = "stamp status" THEN "admin_status_output"
                         ELSE "admin_save_users", IdleLoc)
    /\ UNCHANGED <<quota, catalog, users, pending, history, poisoned, held, issued,
                   clock, nChecks, nStamps, nLogins>>

\* line 469: the history read again, under a second acquisition of the lock
AdminStatusOutput(t) ==
    /\ At(t, "admin_status_output")
    /\ Locked(t, "user_history")
    /\ IF "user_history" \in poisoned
       THEN ReturnLater(t, Panicked, "panic")
       ELSE ReturnLater(t, OkJson(CmdOutput(HistoryDebug(history))), "status")
    /\ UNCHANGED <<quota, catalog, users, pending, history, poisoned, disk, snap, issued,
                   clock, counters>>

\* lines 472-473: the second save_file, made under the UserList lock
AdminSaveUsers(t) ==
    /\ At(t, "admin_save_users")
    /\ Locked(t, "user_list")
    /\ IF "user_list" \in poisoned
       THEN /\ ReturnLater(t, Panicked, "panic")
            /\ UNCHANGED disk
       ELSE /\ disk' = SaveFile(disk, "user_status", UsersToJson(users))
            /\ ReturnLater(t, OkJson(CmdOutput("All databases saved")), "saved")
    /\ UNCHANGED <<quota, catalog, users, pending, history, poisoned, snap, issued,
                   clock, counters>>

(* -------------------------------------------------------- write failure *)

\* what is left of a file when serde_json::to_writer fails after
\* File::create has truncated it
BrokenFile == <<"broken">>

\* save_file returning Err(false): File::create failed and the file is as it
\* was, or to_writer failed and the file is broken
SaveFileErr(d, file_name) ==
    {d, [d EXCEPT ![file_name] = BrokenFile]}

\* lines 468 / 471 with save_file failing: `.unwrap()` panics while the
\* guard of stamp_history.lock() is still alive, and the mutex is poisoned
AdminBeginFails(t, cmd) ==
    /\ Free(t)
    /\ Unlocked("user_history")
    /\ Recognized(cmd)
    /\ "user_history" \notin poisoned
    /\ nSaves < quota.saves
    /\ WorkLeft
    /\ nSaves' = nSaves + 1
    /\ disk' \in SaveFileErr(disk, "stamp_status")
    /\ poisoned' = poisoned \cup {"user_history"}
    /\ ReturnAtOnce(t, AdminRequest(cmd, LocalPeer), NoStamp, Panicked, "panic")
    /\ UNCHANGED <<quota, catalog, users, pending, history, held, snap, issued, clock,
                   nChecks, nStamps, nLogins>>

\* line 472 with save_file failing: the panic poisons the UserList mutex
AdminSaveUsersFails(t) ==
    /\ At(t, "admin_save_users")
    /\ Locked(t, "user_list")
    /\ "user_list" \notin poisoned
    /\ disk' \in SaveFileErr(disk, "user_status")
    /\ poisoned' = poisoned \cup {"user_list"}
    /\ ReturnLater(t, Panicked, "panic")
    /\ UNCHANGED <<quota, catalog, users, pending, history, snap, issued, clock,
                   counters>>

(* ------------------------------------------------------------- response *)

\* the response of the request just completed goes out to the client
Respond ==
    /\ last # NoLast
    /\ last' = NoLast
    /\ UNCHANGED <<shared, pc, req, loc, obs, counters>>

(* -------------------------------------------------------- specification *)

Next ==
    \/ Respond
    \/ \E t \in Workers :
        \/ \E c \in Cookies, q \in Queries, n \in RandomTokens : CheckBegin(t, c, q, n)
        \/ \E n \in RandomTokens : CheckInsert(t, n)
        \/ \E c \in Cookies : StampBegin(t, c)
        \/ StampRemove(t)
        \/ StampUser(t)
        \/ StampAppend(t)
        \/ \E name \in Names : Login(t, name)
        \/ \E cmd \in Commands, ip \in Peers : AdminBegin(t, cmd, ip)
        \/ AdminStatusOutput(t)
        \/ AdminSaveUsers(t)

Spec == Init /\ [][Next]_vars

\* no request carrying the session cookie c is being handled
SessionIdle(c) == \A w \in Workers : InFlight(w) => req[w].cookie # c

\* Next, with the requests of each session arriving one at a time: a client
\* sends its next check or redeem only after the previous one was answered
NextSerial ==
    \/ Respond
    \/ \E t \in Workers :
        \/ \E c \in Cookies, q \in Queries, n \in RandomTokens :
              (c = NoCookie \/ SessionIdle(c)) /\ CheckBegin(t, c, q, n)
        \/ \E n \in RandomTokens : CheckInsert(t, n)
        \/ \E c \in Cookies :
              (c = NoCookie \/ SessionIdle(c)) /\ StampBegin(t, c)
        \/ StampRemove(t)
        \/ StampUser(t)
        \/ StampAppend(t)
        \/ \E name \in Names : Login(t, name)
        \/ \E cmd \in Commands, ip \in Peers : AdminBegin(t, cmd, ip)
        \/ AdminStatusOutput(t)
        \/ AdminSaveUsers(t)

SpecSerial == Init /\ [][NextSerial]_vars

\* the process stops, requests in hand are lost, and run() builds the
\* stores again from the files; stampList.json may have been edited
Restart ==
    /\ last = NoLast
    /\ catalog' \in CatalogChoices
    /\ users' = UserListDb(disk)
    /\ pending' = EmptyMap
    /\ history' = StampHistoryDb(disk, catalog')
    /\ poisoned' = {}
    /\ held' = AllUnlocked
    /\ snap' = NoSnap
    /\ pc' = [t \in Workers |-> "idle"]
    /\ req' = [t \in Workers |-> NoRequest]
    /\ loc' = [t \in Workers |-> IdleLoc]
    /\ obs' = [t \in Workers |-> NoObs]
    /\ UNCHANGED <<quota, disk, issued, clock, last, counters>>

\* Next, with the process restarting
NextRestart == Next \/ Restart

SpecRestart == Init /\ [][NextRestart]_vars

\* Next, with writes to resources/database that may fail
NextFaulty ==
    \/ Next
    \/ \E t \in Workers :
        \/ \E cmd \in Commands : AdminBeginFails(t, cmd)
        \/ AdminSaveUsersFails(t)

SpecFaulty == Init /\ [][NextFaulty]_vars

\* the files an earlier run leaves behind after one registration and a
\* "save all", with or without a redeem of that user before the save
EarlierUsers == [u \in {1} |-> "Ada"]
EarlierRecord == StampUserInfo(1, "Ada", 0)
EarlierRuns(cat) ==
    { [stamp_status |-> <<HistoryToJson(h)>>,
       user_status |-> <<UsersToJson(EarlierUsers)>>] :
      h \in {EmptyHistory(cat),
              [EmptyHistory(cat) EXCEPT ![StampA] = <<EarlierRecord>>]} }

\* run() over the files of an earlier run
InitLoaded ==
    \E cat \in CatalogChoices : \E d \in EarlierRuns(cat) :
        catalog = cat /\ Started(d, 1) /\ quota = Quota

SpecLoaded == InitLoaded /\ [][Next]_vars

\* the mutex the statement at step `label` locks
MutexOf(label) ==
    CASE label \in {"check_insert", "stamp_remove"} -> "user_stamp_list"
      [] label \in {"stamp_user", "admin_save_users"} -> "user_list"
      [] label \in {"stamp_append", "admin_status_output"} -> "user_history"

\* lock() of the statement worker t is at returns: t has the mutex and has
\* not yet made the operation; the others calling lock() on it wait
Lock(t) ==
    /\ last = NoLast
    /\ pc[t] # "idle"
    /\ Unlocked(MutexOf(pc[t]))
    /\ held' = [held EXCEPT ![MutexOf(pc[t])] = t]
    /\ UNCHANGED <<quota, catalog, users, pending, history, poisoned, disk, snap, issued,
                   clock, pc, req, loc, obs, last, counters>>

\* the statements of the handler worker t runs, after the first
Step(t) ==
    \/ \E n \in RandomTokens : CheckInsert(t, n)
    \/ StampRemove(t)
    \/ StampUser(t)
    \/ StampAppend(t)
    \/ AdminStatusOutput(t)
    \/ AdminSaveUsers(t)

\* Next, with the mutexes taken in a step of their own
NextLocks ==
    \/ Next
    \/ \E t \in Workers : Lock(t)

\* the workers are scheduled fairly: a response ready to go out goes out,
\* and a handler whose next statement can run again and again, between the
\* times another worker has its mutex, does run
SpecLive ==
    /\ Init
    /\ [][NextLocks]_vars
    /\ WF_vars(Respond)
    /\ \A t \in Workers : SF_vars(Step(t))

\* a run over no files that admits one request more, one save more
InitSaveAll ==
    /\ Started(NoFiles, 0)
    /\ quota = [work |-> MaxWork + 1, saves |-> MaxSaves + 1]

\* Next, with "save all" for only admin command
NextSaveAll ==
    \/ Respond
    \/ \E t \in Workers :
        \/ \E c \in Cookies, q \in Queries, n \in RandomTokens : CheckBegin(t, c, q, n)
        \/ \E n \in RandomTokens : CheckInsert(t, n)
        \/ \E c \in Cookies : StampBegin(t, c)
        \/ StampRemove(t)
        \/ StampUser(t)
        \/ StampAppend(t)
        \/ \E name \in Names : Login(t, name)
        \/ \E ip \in Peers : AdminBegin(t, "save all", ip)
        \/ AdminSaveUsers(t)

SpecSaveAll == InitSaveAll /\ [][NextSaveAll]_vars

(* ------------------------------------------------------------ properties *)

\* records of user u under checkpoint c in history h
RecordsOf(h, u, c) == Cardinality({i \in 1..Len(h[c]) : h[c][i].user_id = u})

\* records of user u in history h
RecordsOfUser(h, u) == SetSum(DOMAIN h, [c \in DOMAIN h |-> RecordsOf(h, u, c)])

\* worker t returns from handle_stamp in this step, the request having got
\* past the presence test of line 377
StampReturns(t) == req[t].op = "stamp" /\ pc[t] # "idle" /\ pc'[t] = "idle"

\* history g is history h with one record of user u appended under c and
\* nothing else changed
OneRecordMore(h, g, u, c) ==
    /\ DOMAIN g = DOMAIN h
    /\ c \in DOMAIN h
    /\ Len(g[c]) = Len(h[c]) + 1
    /\ SubSeq(g[c], 1, Len(h[c])) = h[c]
    /\ g[c][Len(g[c])].user_id = u
    /\ \A d \in DOMAIN h \ {c} : g[d] = h[d]

\* C1: with exactly one successful check by a session, however many redeem
\* requests of that session run and however their lock acquisitions
\* interleave, only one of them succeeds: the history holds at most one
\* record of that session.
C1_OneCheckOneRecord ==
    \A u \in Uuids : ChecksOf(u) = 1 => RecordsOfUser(history, u) <= 1

\* C2 as stated: a redeem that runs without overlap and finds the pending
\* entry c of its session returns success with c, appends exactly one record
\* under c and changes no other sequence, and leaves the session without an
\* entry; a redeem that runs without overlap and finds no entry returns 401
\* and appends nothing.
C2_AsStated ==
    [][ /\ \A t \in Workers :
              StampReturns(t) /\ obs[t].alone
              => /\ last'.resp = [status |-> "Ok", stamp |-> obs[t].e0]
                 /\ OneRecordMore(obs[t].h0, history', req[t].cookie, obs[t].e0)
                 /\ req[t].cookie \notin DOMAIN pending'
        /\ last'.req.op = "stamp" /\ last'.alone /\ last'.e0 = NoStamp
              => /\ last'.resp.status = "Unauthorized"
                 /\ history' = history
                 /\ pending' = pending
      ]_vars

\* C2, amended: the same for every catalog checkpoint whose id is not empty.
C2_CheckRedeemRedeem ==
    [][ /\ \A t \in Workers :
              StampReturns(t) /\ obs[t].alone /\ obs[t].e0 # EmptyId
              => /\ last'.resp = [status |-> "Ok", stamp |-> obs[t].e0]
                 /\ OneRecordMore(obs[t].h0, history', req[t].cookie, obs[t].e0)
                 /\ req[t].cookie \notin DOMAIN pending'
        /\ last'.req.op = "stamp" /\ last'.alone /\ last'.e0 = NoStamp
              => /\ last'.resp.status = "Unauthorized"
                 /\ history' = history
                 /\ pending' = pending
      ]_vars

\* a session with one check and one record has just been refused a second
\* redeem, no other request overlapping it
C2_Witness ==
    /\ last.req.op = "stamp"
    /\ last.branch = "no_entry"
    /\ last.resp.status = "Unauthorized"
    /\ last.alone
    /\ last.req.cookie \in Uuids
    /\ ChecksOf(last.req.cookie) = 1
    /\ RecordsOfUser(history, last.req.cookie) = 1

\* C3: the checkpoint under which a redeem is about to append is the
\* checkpoint of the entry its remove took out of the table.
C3_RemovedIsAppended ==
    \A t \in Workers :
        pc[t] \in {"stamp_user", "stamp_append"} /\ obs[t].removed # NoStamp
        => obs[t].removed = loc[t].stamp_id

\* C4: a redeem without cookie, or of a session without pending entry (so of
\* every session that never made a successful check), returns 401 and
\* changes none of the three stores.
C4_NoEntryUnauthorized ==
    [][ ( /\ last'.req.op = "stamp"
          /\ \/ last'.req.cookie = NoCookie
             \/ last'.e0 = NoStamp
             \/ last'.req.cookie \in Uuids /\ ChecksOf(last'.req.cookie) = 0 )
        => /\ last'.resp.status = "Unauthorized"
           /\ UNCHANGED <<users, pending, history>>
      ]_vars

\* a registered session that never made a check has just been refused
C4_Witness ==
    /\ last.req.op = "stamp"
    /\ last.resp.status = "Unauthorized"
    /\ last.req.cookie \in DOMAIN users
    /\ ChecksOf(last.req.cookie) = 0

\* C5: a successful check of session u for checkpoint c leaves exactly
\* pending[u] = c, whatever entry u had, and touches no other session's
\* entry; the redeem that follows without overlap appends one record under
\* the entry it found and none elsewhere.
C5_LastCheckWins ==
    [][ /\ last'.req.op = "check" /\ last'.branch = "inserted"
              => /\ DOMAIN pending' = DOMAIN pending \cup {last'.req.cookie}
                 /\ pending'[last'.req.cookie] = ParseStampId(last'.req.arg)
                 /\ \A v \in DOMAIN pending \ {last'.req.cookie} :
                        pending'[v] = pending[v]
                 /\ history' = history
        /\ \A t \in Workers :
              StampReturns(t) /\ obs[t].alone
              => /\ RecordsOf(history', req[t].cookie, obs[t].e0)
                        = RecordsOf(obs[t].h0, req[t].cookie, obs[t].e0) + 1
                 /\ \A d \in DOMAIN history' \ {obs[t].e0} :
                        history'[d] = obs[t].h0[d]
      ]_vars

\* checks for A then B by one session, then one redeem: one record under B,
\* none under A, no entry left
C5_Witness ==
    /\ last.req.op = "stamp"
    /\ last.branch = "appended"
    /\ last.alone
    /\ last.e0 = StampB
    /\ LET u == last.req.cookie
       IN  /\ nChecks[u][StampA] = 1
           /\ nChecks[u][StampB] = 1
           /\ RecordsOf(history, u, StampA) = 0
           /\ RecordsOf(history, u, StampB) = 1
           /\ u \notin DOMAIN pending


\* the redeem of session u in progress holds checkpoint c, taken out of the
\* table and not yet recorded
Holds(t, u, c) ==
    /\ pc[t] \in {"stamp_user", "stamp_append"}
    /\ req[t].cookie = u
    /\ loc[t].stamp_id = c

\* checks of u for c that are neither recorded nor consumed: the entry in
\* the table and the redeems in progress
Unrecorded(u, c) ==
    (IF u \in DOMAIN pending /\ pending[u] = c THEN 1 ELSE 0)
    + Cardinality({t \in Workers : Holds(t, u, c)})

\* C6: with the requests of each session executed one at a time, the records
\* of session u under checkpoint c, together with the entry of u for c still
\* pending or being redeemed, never outnumber the successful checks of u for
\* c; so every record has its own earlier check and no check is recorded
\* twice.
C6_RecordsWithinChecks ==
    \A u \in Uuids : \A c \in DOMAIN history :
        RecordsOf(history, u, c) + Unrecorded(u, c) <= nChecks[u][c]

\* a session whose first check of a checkpoint is recorded and whose second
\* check of it is pending: two checks, one record, one entry
C6_Witness ==
    \E u \in Uuids :
        /\ StampA \in DOMAIN history
        /\ nChecks[u][StampA] = 2
        /\ RecordsOf(history, u, StampA) = 1
        /\ u \in DOMAIN pending
        /\ pending[u] = StampA

\* C7: a check without cookie, of a cookie the user list does not hold, or
\* for an id the catalog does not hold, is turned away at the first of these
\* tests that fails, in this order, and changes none of the three stores.
C7_RejectedCheckNoChange ==
    [][ LET r == last'.req
        IN  ( /\ r.op = "check"
              /\ \/ r.cookie = NoCookie
                 \/ r.cookie \notin DOMAIN users
                 \/ ParseStampId(r.arg) \notin catalog )
            => /\ last'.branch =
                     IF r.cookie = NoCookie THEN "no_cookie"
                     ELSE IF r.cookie \notin DOMAIN users THEN "unknown_user"
                     ELSE "unknown_stamp"
               /\ last'.resp.status = "TemporaryRedirect"
               /\ UNCHANGED <<users, pending, history>>
      ]_vars

\* a check for an unknown id by a session that keeps its earlier entry
C7_Witness ==
    /\ last.req.op = "check"
    /\ last.branch = "unknown_stamp"
    /\ last.e0 # NoStamp
    /\ last.req.cookie \in DOMAIN pending
    /\ pending[last.req.cookie] = last.e0

\* C8: whatever the cookie, the user list, the catalog and the stores, the
\* answer to a check is the temporary redirect to /stamp/?random=<token>,
\* the token drawn afresh and nothing else in it.
C8_SameRedirect ==
    last.req.op = "check"
    => \E n \in RandomTokens :
          last.resp = [status |-> "TemporaryRedirect",
                       location |-> <<"/stamp/?random=", n>>]

\* a check turned away for its cookie while entries are pending
C8_Witness ==
    /\ last.req.op = "check"
    /\ last.branch = "unknown_user"
    /\ last.resp.status = "TemporaryRedirect"
    /\ pending # EmptyMap

\* C9: a registration returns the given name with an id no earlier
\* registration got, adds exactly that id with that name to the user list,
\* and changes neither the pending table nor the history.
C9_FreshRegistration ==
    [][ last'.req.op = "login"
        => /\ last'.resp.status = "Ok"
           /\ last'.resp.json.user_name = last'.req.arg
           /\ last'.resp.json.user_id \notin DOMAIN users
           /\ DOMAIN users' = DOMAIN users \cup {last'.resp.json.user_id}
           /\ users'[last'.resp.json.user_id] = last'.req.arg
           /\ \A v \in DOMAIN users : users'[v] = users[v]
           /\ UNCHANGED <<pending, history>>
      ]_vars

\* two registrations under one name, two entries
C9_Witness ==
    /\ last.req.op = "login"
    /\ \E u, v \in DOMAIN users : u # v /\ users[u] = users[v]

\* C10: an admin request from an address that is not loopback is answered
\* 401 whatever the command, writes no file and changes no store.
C10_RemoteAdminRefused ==
    [][ last'.req.op = "admin" /\ last'.req.peer = "10.0.0.7"
        => /\ last'.resp.status = "Unauthorized"
           /\ UNCHANGED <<users, pending, history, disk>>
      ]_vars

\* "save all" from a remote address, refused, no file written
C10_Witness ==
    /\ last.req.op = "admin"
    /\ last.req.peer = "10.0.0.7"
    /\ last.req.arg = "save all"
    /\ last.resp.status = "Unauthorized"
    /\ disk.stamp_status = NoFile
    /\ users # EmptyMap


\* C11: when a "save all" returns, the users file and the history file hold
\* the user list and the history as the two stood together at one moment
\* between the request's first step and its last.
C11_SaveAllOneMoment ==
    [][ \A t \in Workers :
            pc[t] = "admin_save_users" /\ pc'[t] = "idle"
            => <<UsersFromJson(disk'.user_status[1]),
                 HistoryFromJson(disk'.stamp_status[1])>> \in obs[t].seen
      ]_vars


\* C12: the status command answers with the history it wrote to
\* stamp_status.json: the history in the output is the history persisted by
\* the same request.
C12_StatusReturnsPersisted ==
    [][ \A t \in Workers :
            pc[t] = "admin_status_output" /\ pc'[t] = "idle"
            => /\ last'.resp.status = "Ok"
               /\ last'.resp.json.output = <<"StampHistory", obs[t].h0>>
      ]_vars


\* C13: an admin request from a loopback address with a command other than
\* the two snapshot commands is answered 200 with "Command not found",
\* writes no file and changes no store.
C13_UnknownCommandNoEffect ==
    [][ ( /\ last'.req.op = "admin"
          /\ last'.req.peer = "127.0.0.1"
          /\ last'.req.arg \notin {"stamp status", "save all"} )
        => /\ last'.resp = [status |-> "Ok",
                            json |-> [command |-> "",
                                      output |-> "Command not found"]]
           /\ UNCHANGED <<users, pending, history, disk>>
      ]_vars

\* "help" from the loopback address, answered, with users registered and an
\* entry pending
C13_Witness ==
    /\ last.req.op = "admin"
    /\ last.req.peer = "127.0.0.1"
    /\ last.req.arg = "help"
    /\ last.resp.status = "Ok"
    /\ users # EmptyMap
    /\ pending # EmptyMap
    /\ disk = NoFiles


\* C14: a failed write is survived: no request ends with its handler
\* panicking instead of answering, and no store is left behind a poisoned
\* lock.
C14_WriteFailureSurvived ==
    /\ last.resp.status # "Panic"
    /\ poisoned = {}


\* C15: when the process restarts after an admin command wrote the history
\* and no redeem has appended since, the history run() loads is the history
\* that was in memory when the command wrote it.
C15_HistoryRoundTrip ==
    [][ Restart /\ snap # <<"none">> /\ history = snap
        => /\ history' = snap
           /\ history' = history
      ]_vars

\* a history with a record, written by an admin command, is in memory again
\* after the restart, the pending table empty
C15_Witness ==
    /\ snap = <<"none">>
    /\ disk.stamp_status # NoFile
    /\ \E c \in DOMAIN history : Len(history[c]) = 1
    /\ \A t \in Workers : pc[t] = "idle"
    /\ pending = EmptyMap
    /\ nStamps = 1


\* C16: started with no stamp_status.json, every checkpoint id held in the
\* pending table or by a redeem in progress is a catalog id, and the keys
\* of the history are the catalog ids, so the sequence a redeem appends to
\* is there.
C16_KeysAreCatalog ==
    /\ \A u \in DOMAIN pending : pending[u] \in catalog
    /\ DOMAIN history = catalog
    /\ \A t \in Workers :
          pc[t] \in {"stamp_user", "stamp_append"}
          => loc[t].stamp_id \in DOMAIN history
    /\ last.branch # "panic"

\* a redeem about to append under A while an entry for B is pending
C16_Witness ==
    /\ \E t \in Workers : pc[t] = "stamp_append" /\ loc[t].stamp_id = <<"A">>
    /\ \E u \in DOMAIN pending : pending[u] = <<"B">>


\* C17: in every step the history keeps its keys, and under every key the
\* sequence before the step is a prefix of the sequence after it.
C17_HistoryAppendOnly ==
    [][ /\ DOMAIN history' = DOMAIN history
        /\ \A c \in DOMAIN history :
              /\ Len(history[c]) <= Len(history'[c])
              /\ SubSeq(history'[c], 1, Len(history[c])) = history[c]
      ]_vars

\* a record has just been appended behind an earlier one
C17_Witness ==
    /\ last.req.op = "stamp"
    /\ last.branch = "appended"
    /\ \E c \in DOMAIN history :
          /\ Len(history[c]) = 2
          /\ history[c][1].timestamp < history[c][2].timestamp


\* a step gives session u an entry or replaces the one it has
EntrySet(u) ==
    /\ u \in DOMAIN pending'
    /\ u \notin DOMAIN pending \/ pending'[u] # pending[u]

\* a step takes the entry of session u away
EntryCleared(u) == u \in DOMAIN pending /\ u \notin DOMAIN pending'

\* the step is the insert of a check of session u
CheckOf(u) ==
    /\ last'.req.op = "check"
    /\ last'.req.cookie = u
    /\ last'.branch = "inserted"

\* the step is the remove of a redeem of session u
RemoveOf(u) ==
    \E t \in Workers :
        /\ req[t].op = "stamp"
        /\ req[t].cookie = u
        /\ pc[t] = "stamp_remove"
        /\ pc'[t] = "stamp_user"

\* C18 as stated: the table starts empty, only a successful check of u sets
\* the entry of u, only a redeem of u clears it, and when a redeem of u
\* returns success u has no entry.
C18_AsStated ==
    /\ pending = EmptyMap
    /\ [][ /\ \A u \in Uuids :
                /\ EntrySet(u) => CheckOf(u)
                /\ EntryCleared(u) => RemoveOf(u)
           /\ \A t \in Workers :
                StampReturns(t) /\ last'.resp.status = "Ok"
                => req[t].cookie \notin DOMAIN pending'
         ]_vars

\* C18, amended: the table starts empty, only a successful check of u sets
\* the entry of u, only a redeem of u clears it, and the remove of a redeem
\* of u leaves u without entry; a redeem that returns success without
\* another request overlapping it leaves u without entry.
C18_PendingWindow ==
    /\ pending = EmptyMap
    /\ [][ /\ \A u \in Uuids :
                /\ EntrySet(u) => CheckOf(u)
                /\ EntryCleared(u) => RemoveOf(u)
                /\ RemoveOf(u) => u \notin DOMAIN pending'
           /\ \A t \in Workers :
                StampReturns(t) /\ last'.resp.status = "Ok" /\ obs[t].alone
                => req[t].cookie \notin DOMAIN pending'
         ]_vars

\* a session whose redeem was recorded has, by its next check, an entry again
C18_Witness ==
    /\ last.req.op = "check"
    /\ last.branch = "inserted"
    /\ last.e0 = NoStamp
    /\ last.req.cookie \in DOMAIN pending
    /\ RecordsOfUser(history, last.req.cookie) = 1


\* C19: every user with an entry in the pending table, and every user whose
\* redeem is past the remove, is in the user list, so the lookup of lines
\* 395-401 finds the name and no redeem panics there.
C19_PendingUsersRegistered ==
    /\ DOMAIN pending \subseteq DOMAIN users
    /\ \A t \in Workers :
          pc[t] \in {"stamp_remove", "stamp_user"}
          => req[t].cookie \in DOMAIN users
    /\ last.req.op = "stamp" => last.resp.status # "Panic"

\* a redeem at its lookup with two users registered, one of them during
\* the redeem
C19_Witness ==
    \E t \in Workers :
        /\ pc[t] = "stamp_user"
        /\ ~obs[t].alone
        /\ Cardinality(DOMAIN users) = 2


\* C20: in every step every user of the list stays in it under the same
\* name, and a step that changes the list is a registration.
C20_UsersOnlyGrow ==
    [][ /\ \A u \in DOMAIN users :
              u \in DOMAIN users' /\ users'[u] = users[u]
        /\ users' # users => last'.req.op = "login"
      ]_vars

\* a second user registered under another name, the first still listed,
\* after checks and redeems
C20_Witness ==
    /\ last.req.op = "login"
    /\ \E u, v \in DOMAIN users : users[u] # users[v]
    /\ \E c \in DOMAIN history : history[c] # <<>>


\* the mutexes worker t holds
HeldBy(t) == {m \in Mutexes : held[m] = t}

\* C21: no worker ever holds two mutexes, so none waits for a mutex while
\* holding another; and with the workers scheduled fairly every request a
\* worker has in hand is answered: the worker is idle again.
C21_NoRequestBlocks ==
    /\ [](\A t \in Workers : Cardinality(HeldBy(t)) <= 1)
    /\ \A t \in Workers : (pc[t] # "idle") ~> (pc[t] = "idle")

\* a redeem waits at its append for the history mutex, which an admin
\* command holds for its status output
C21_Witness ==
    \E t, w \in Workers :
        /\ pc[t] = "stamp_append"
        /\ pc[w] = "admin_status_output"
        /\ held["user_history"] = w


\* the redeem worker t has in hand is past its remove and before its append
Removing(t) == pc[t] \in {"stamp_user", "stamp_append"}

\* history h holds the record of the redeem worker t has in hand: a record
\* of its user under its checkpoint, stamped with the time the redeem has
\* read or, the time not read yet, with one that is still to come
RecordedIn(h, t) ==
    /\ loc[t].stamp_id \in DOMAIN h
    /\ \E i \in 1..Len(h[loc[t].stamp_id]) :
          /\ h[loc[t].stamp_id][i].user_id = loc[t].user_id
          /\ IF pc[t] = "stamp_append"
             THEN h[loc[t].stamp_id][i].timestamp = loc[t].timestamp
             ELSE h[loc[t].stamp_id][i].timestamp >= clock

\* the step is an admin command writing stamp_status.json
SnapshotStep == nSaves' = nSaves + 1

\* C22: while a redeem is past its remove and before its append, an admin
\* command that writes the history writes it without the record of that
\* redeem and puts no entry back, the session having no entry if it made
\* one check only; a restart in that state loads a history without the
\* record into an empty pending table, the redeem being gone.
C22_RedeemNotTransactional ==
    [][ \A t \in Workers :
            Removing(t)
            => /\ SnapshotStep
                  => /\ disk'.stamp_status = <<[stamp_history |-> history]>>
                     /\ ~RecordedIn(disk'.stamp_status[1].stamp_history, t)
                     /\ UNCHANGED <<pending, history>>
                     /\ pc'[t] = pc[t]
                     /\ ChecksOf(loc[t].user_id) = 1
                           => loc[t].user_id \notin DOMAIN pending'
               /\ Restart
                  => /\ ~RecordedIn(history', t)
                     /\ pending' = <<>>
                     /\ pc'[t] = "idle"
      ]_vars

\* a redeem has taken the only entry of its session out of the table and
\* is about to append, and the history file, written by a "save all" still
\* in progress, holds no record of the session
C22_Witness ==
    \E t, w \in Workers :
        /\ pc[t] = "stamp_append"
        /\ pc[w] = "admin_save_users"
        /\ ChecksOf(loc[t].user_id) = 1
        /\ loc[t].user_id \notin DOMAIN pending
        /\ disk.stamp_status = <<[stamp_history |-> history]>>
        /\ obs[w].h0 = history
        /\ RecordsOfUser(history, loc[t].user_id) = 0


\* C23: with a catalog that does not hold the empty id, every redeem ends
\* either with 401, no store changed, or with 200 and the id of a catalog
\* checkpoint, its last step having appended one record of its session
\* under that id and nothing else; none ends with 404, and a step that
\* changes the history is the last step of a redeem answered 200.
C23_NoNotFound ==
    [][ <<>> \notin catalog
        => /\ last'.req.op = "stamp"
              => \/ /\ last'.resp = [status |-> "Unauthorized"]
                    /\ UNCHANGED <<users, pending, history>>
                 \/ /\ last'.resp.status = "Ok"
                    /\ last'.resp.stamp \in catalog
                    /\ OneRecordMore(history, history', last'.req.cookie,
                                     last'.resp.stamp)
                    /\ UNCHANGED <<users, pending>>
           /\ history' # history
              => last'.req.op = "stamp" /\ last'.resp.status = "Ok"
      ]_vars

\* with the catalog of A and B, a session whose check of B was recorded by
\* a redeem answered 200 has just been refused a second redeem
C23_Witness ==
    /\ <<>> \notin catalog
    /\ last.req.op = "stamp"
    /\ last.resp.status = "Unauthorized"
    /\ last.req.cookie \in Uuids
    /\ RecordsOf(history, last.req.cookie, <<"B">>) = 1


\* the step is one of handle_admin: its first, or one that follows
AdminStep ==
    \/ last'.req.op = "admin"
    \/ \E t \in Workers : req'[t].op = "admin" /\ pc'[t] # pc[t]

\* file f is absent or holds one JSON object with the single member `member`
HoldsOnly(f, member) == f = <<>> \/ DOMAIN f[1] = {member}

\* C24: every step of an admin request leaves the user list, the pending
\* table and the history as they were; the two files hold the history and
\* the user list and nothing of the pending table; and a restart begins
\* with the pending table empty, whatever was saved.
C24_AdminOnlyReads ==
    [][ /\ AdminStep => UNCHANGED <<users, pending, history>>
        /\ DOMAIN disk' = {"stamp_status", "user_status"}
        /\ HoldsOnly(disk'.stamp_status, "stamp_history")
        /\ HoldsOnly(disk'.user_status, "users")
        /\ Restart => pending' = <<>>
      ]_vars

\* after a "save all" made while an entry was pending and a restart, the
\* user is back and the entry is not: no redeem was begun to take it
C24_Witness ==
    /\ snap = <<"none">>
    /\ disk.stamp_status # <<>>
    /\ disk.user_status # <<>>
    /\ users # <<>>
    /\ nSaves = 1
    /\ nStamps = 0
    /\ \E u \in DOMAIN users : ChecksOf(u) = 1
    /\ \A t \in Workers : pc[t] = "idle"
    /\ pending = <<>>


\* the step is one of a check or a redeem carrying the cookie of session u
StepOf(u) ==
    \/ last'.req.op \in {"check", "stamp"} /\ last'.req.cookie = u
    \/ \E t \in Workers :
          /\ req'[t].op \in {"check", "stamp"}
          /\ req'[t].cookie = u
          /\ pc'[t] # pc[t]

\* the records history h holds
RecordsIn(h) == UNION {{h[c][i] : i \in 1..Len(h[c])} : c \in DOMAIN h}

\* the records of history g that history h does not hold
NewRecords(h, g) == RecordsIn(g) \ RecordsIn(h)

\* C25: a step of a check or redeem of session u leaves every other
\* session with the entry it had, or without one as it was; and every record
\* a step appends carries the id of the session whose redeem it is and the
\* name the user list holds for that id.
C25_SessionsIsolated ==
    [][ /\ \A u \in Cookies :
              StepOf(u)
              => \A v \in Uuids \ {u} :
                    /\ v \in DOMAIN pending' <=> v \in DOMAIN pending
                    /\ v \in DOMAIN pending => pending'[v] = pending[v]
        /\ \A r \in NewRecords(history, history') :
              /\ last'.req.op = "stamp"
              /\ r.user_id = last'.req.cookie
              /\ r.user_id \in DOMAIN users'
              /\ r.user_name = users'[r.user_id]
      ]_vars

\* a redeem of one session, run while other requests were in flight, has
\* just appended its record, and a session of another name still has its
\* entry
C25_Witness ==
    /\ last.req.op = "stamp"
    /\ last.branch = "appended"
    /\ ~last.alone
    /\ \E v \in DOMAIN pending :
          /\ v # last.req.cookie
          /\ users[v] # users[last.req.cookie]


\* the history and the user list a restart would load from the files
PersistedHistory == IF disk.stamp_status = <<>> THEN <<>>
                    ELSE disk.stamp_status[1].stamp_history
PersistedUsers == IF disk.user_status = <<>> THEN <<>>
                  ELSE disk.user_status[1].users

\* C26: started over no files and with "save all" for only admin command,
\* whenever no "save all" is between its two writes every record of the
\* history file carries a user id that the users file holds.
C26_PersistedRecordsHaveUsers ==
    (\A t \in Workers : pc[t] # "admin_save_users")
    => \A r \in RecordsIn(PersistedHistory) : r.user_id \in DOMAIN PersistedUsers

\* two "save all", the second returning while other requests were in
\* flight, have left a history file with a record and a users file; no
\* request is in hand
C26_Witness ==
    /\ nSaves = 2
    /\ last.req.op = "admin"
    /\ last.branch = "saved"
    /\ ~last.alone
    /\ \A t \in Workers : pc[t] = "idle"
    /\ RecordsIn(PersistedHistory) # {}
    /\ PersistedHistory = history
    /\ PersistedUsers = users

====
